---- MODULE Spec2Model ----
(***************************************************************************)
(* Model of jcvi/compara/reconstruct.py: the collinear chainer             *)
(* (print_chain), the orientation selector (get_collinear) and the         *)
(* ancestral interleaver (interleave_pairs, as driven by zipbed).          *)
(*                                                                         *)
(* Python lists are modelled as TLA+ sequences.  Python indices are kept   *)
(* 0-based (and -1 keeps its Python meaning "last element"); PyGet does    *)
(* the translation to the 1-based TLA+ sequences.                          *)
(***************************************************************************)
EXTENDS Integers, Sequences, FiniteSets

VARIABLES
    block,      \* the list object the caller hands to get_collinear
    input,      \* the block as it was when get_collinear was called
    pc,         \* position inside get_collinear
    asc,        \* result of print_chain(block)
    desc,       \* result of print_chain(block, ascending=False)
    result,     \* the chain get_collinear returns
    wblock,     \* window study: the block
    wasc,       \* window study: the orientation
    w,          \* window study: next window size to run
    wscore,     \* window study: chain score obtained for each window size run
    pairs,      \* the list zipbed hands to interleave_pairs
    zpc,        \* position inside zipbed / the generator
    cur,        \* the generator's current pair (a, b)
    k,          \* number of pairs of the chain the generator has consumed
    out,        \* the indices the generator has yielded so far
    rows        \* the indices zipbed has written rows for

vars == <<block, input, pc, asc, desc, result, wblock, wasc, w, wscore,
          pairs, zpc, cur, k, out, rows>>

chainVars == <<block, input, pc, asc, desc, result>>
windowVars == <<wblock, wasc, w, wscore>>
zipVars == <<pairs, zpc, cur, k, out, rows>>

----------------------------------------------------------------------------
(* Bounds of the model *)

MaxLen == 3         \* largest block (number of anchors)
MaxPos == 2         \* queryPos and subjectPos range over 0..MaxPos
MaxScope == 3       \* window sizes 1..MaxScope in the window study
MaxPairs == 3       \* longest chain of pairs handed to interleave_pairs
MaxRank == 3        \* gene-order ranks range over 0..MaxRank

\* raw anchor weights, ascending: 0, a non-square and a square
WeightSeq == <<0, 3, 4>>
Weights == {WeightSeq[x] : x \in 1..Len(WeightSeq)}

Anchors == (0..MaxPos) \X (0..MaxPos) \X Weights

SeqsUpTo(S, n) == UNION {[1..m -> S] : m \in 0..n}

\* the block of the worked example
ExampleBlock == <<<<0, 5, 16>>, <<1, 6, 16>>, <<2, 3, 16>>, <<3, 7, 16>>>>

----------------------------------------------------------------------------
(* Python helpers *)

Range(s) == {s[x] : x \in 1..Len(s)}

\* seq[x] for a Python index x (negative indices count from the end)
PyGet(s, x) == IF x < 0 THEN s[Len(s) + x + 1] ELSE s[x + 1]

\* the 0-based position a Python index x denotes in a list of length n
PyPos(n, x) == IF x < 0 THEN n + x ELSE x

Reverse(s) == [x \in 1..Len(s) |-> s[Len(s) + 1 - x]]

\* Python's ordering of tuples of ints of equal length: lexicographic
RECURSIVE TupleLess(_, _)
TupleLess(x, y) ==
    IF Len(x) = 0 \/ Len(y) = 0 THEN Len(x) < Len(y)
    ELSE IF x[1] # y[1] THEN x[1] < y[1]
    ELSE TupleLess(Tail(x), Tail(y))

\* insert x into the sorted list s, after the elements not greater than it
RECURSIVE Insert(_, _)
Insert(s, x) ==
    IF Len(s) = 0 THEN <<x>>
    ELSE IF TupleLess(x, s[1]) THEN <<x>> \o s
    ELSE <<s[1]>> \o Insert(Tail(s), x)

\* list.sort(): a stable sort by the natural (lexicographic) order
RECURSIVE Sort(_)
Sort(s) == IF Len(s) = 0 THEN <<>> ELSE Insert(Sort(SubSeq(s, 1, Len(s) - 1)), s[Len(s)])

\* the anchors numbered 0 .. NumAnchors - 1 in their lexicographic order
NumAnchors == (MaxPos + 1) * (MaxPos + 1) * Len(WeightSeq)
AnchorAt(i) ==
    <<i \div ((MaxPos + 1) * Len(WeightSeq)),
      (i \div Len(WeightSeq)) % (MaxPos + 1),
      WeightSeq[(i % Len(WeightSeq)) + 1]>>

\* blk is a list of at most two anchors, or prefix followed by n more anchors
\* numbered at most hi, the whole in non-increasing order (the order
\* list.sort() has to reverse), or the block of the worked example
RECURSIVE NonIncreasing(_, _, _, _)
NonIncreasing(blk, prefix, n, hi) ==
    \/ blk = prefix
    \/ /\ n > 0
       /\ \E i \in 0..hi : NonIncreasing(blk, Append(prefix, AnchorAt(i)), n - 1, i)

IsBlock(blk) ==
    \/ NonIncreasing(blk, <<>>, MaxLen, NumAnchors - 1)
    \/ blk \in [1..2 -> Anchors]
    \/ blk = ExampleBlock

\* score_convert = lambda x: int(sqrt(x)), for x >= 0
score_convert(x) == CHOOSE r \in 0..x : r * r <= x /\ (r + 1) * (r + 1) > x

----------------------------------------------------------------------------
(* print_chain *)

scope == 50

\* [(a, -b, c) for (a, b, c) in block]
Negate(blk) == [x \in 1..Len(blk) |-> <<blk[x][1], 0 - blk[x][2], blk[x][3]>>]

\* faulty variant: the solution is left in negated coordinates
NegateBackMut(sol) == sol

\* [(a, -b, c) for (a, b, c) in solution]
NegateBack(sol) == [x \in 1..Len(sol) |-> <<sol[x][1], 0 - sol[x][2], sol[x][3]>>]

\* faulty variant: the window test inverted
InScopeMut(i, j, sc) == j >= i + sc

\* j in xrange(i + 1, i + scope)
InScope(i, j, sc) == j < i + sc

\* faulty variant: the test d == a is forgotten
CollinearMut(x, y) == x[2] < y[2]

\* not (d == a or b >= e), for x = (a, b, c) and y = (d, e, f)
Collinear(x, y) == ~(y[1] = x[1] \/ x[2] >= y[2])

\* body of the inner loop for one (i, j); st = [scores, fromm], 0-based i, j
Relax(blk, st, i, j) ==
    LET x == PyGet(blk, i)
        y == PyGet(blk, j)
        this_score == PyGet(st.scores, i) + score_convert(y[3])
    IN  IF ~Collinear(x, y) THEN st
        ELSE IF this_score > PyGet(st.scores, j)
             THEN [scores |-> [st.scores EXCEPT ![j + 1] = this_score],
                   fromm  |-> [st.fromm EXCEPT ![j + 1] = i]]
             ELSE st

\* for j in xrange(i + 1, i + scope): if j >= bsize: break; ...
RECURSIVE InnerLoop(_, _, _, _, _)
InnerLoop(blk, st, i, j, sc) ==
    IF ~InScope(i, j, sc) \/ j >= Len(blk) THEN st
    ELSE InnerLoop(blk, Relax(blk, st, i, j), i, j + 1, sc)

\* for i, (a, b, c) in enumerate(block): ...
RECURSIVE OuterLoop(_, _, _, _)
OuterLoop(blk, st, i, sc) ==
    IF i >= Len(blk) THEN st
    ELSE OuterLoop(blk, InnerLoop(blk, st, i, i + 1, sc), i + 1, sc)

\* the dynamic program: scores and fromm after the double loop
Chaining(blk, sc) ==
    OuterLoop(blk,
              [scores |-> [x \in 1..Len(blk) |-> score_convert(blk[x][3])],
               fromm  |-> [x \in 1..Len(blk) |-> -1]],
              0, sc)

\* max(zip(scores, fromm)): the lexicographically largest (score, fromm)
MaxChain(st) ==
    LET sf == {<<st.scores[x], st.fromm[x]>> : x \in 1..Len(st.scores)}
    IN  CHOOSE t \in sf : \A u \in sf : ~TupleLess(t, u)

\* scoresfromm.index(maxchain): the first 0-based index holding maxchain
IndexOf(st, t) ==
    CHOOSE x \in 0..(Len(st.scores) - 1) :
        /\ <<st.scores[x + 1], st.fromm[x + 1]>> = t
        /\ \A y \in 0..(x - 1) : <<st.scores[y + 1], st.fromm[y + 1]>> # t

\* while True: _last = fromm[last]; if _last == -1: break; ...
RECURSIVE Traceback(_, _, _)
Traceback(fromm, last, solution) ==
    LET l == PyGet(fromm, last)
    IN  IF l = -1 THEN solution
        ELSE Traceback(fromm, l, Append(solution, l))

NoResult == [status |-> "none", score |-> 0, chain |-> <<>>, positions |-> <<>>]

\* print_chain(block, ascending) with window sc.  status "ValueError" is the
\* exception max() raises on an empty sequence.  positions are the 0-based
\* positions of the sorted block the chain was read from, in chain order.
print_chain(blk0, ascending, sc) ==
    LET blk == Sort(IF ascending THEN blk0 ELSE Negate(blk0))
    IN  IF Len(blk) = 0
        THEN [status |-> "ValueError", score |-> 0, chain |-> <<>>, positions |-> <<>>]
        ELSE LET st == Chaining(blk, sc)
                 maxchain == MaxChain(st)
                 chainscore == maxchain[1]
                 chainend == maxchain[2]
                 solution == Reverse(Traceback(st.fromm, chainend,
                                               <<IndexOf(st, maxchain), chainend>>))
                 picked == [x \in 1..Len(solution) |-> PyGet(blk, solution[x])]
             IN  [status |-> "ok",
                  score |-> chainscore,
                  chain |-> IF ascending THEN picked ELSE NegateBack(picked),
                  positions |-> [x \in 1..Len(solution) |-> PyPos(Len(blk), solution[x])]]

----------------------------------------------------------------------------
(* get_collinear *)

\* faulty variant: >= in place of >
PickMut(a, d) == IF a.score >= d.score THEN a.chain ELSE d.chain

\* return asc_chain if asc_score > desc_score else desc_chain
Pick(a, d) == IF a.score > d.score THEN a.chain ELSE d.chain

WindowIdle == wblock = <<>> /\ wasc = TRUE /\ w = 0 /\ wscore = <<>>
ZipIdle == pairs = <<>> /\ zpc = "idle" /\ cur = <<0, 0>> /\ k = 0 /\ out = <<>> /\ rows = <<>>
ChainIdle ==
    /\ block = <<>> /\ input = <<>> /\ pc = "idle"
    /\ asc = NoResult /\ desc = NoResult /\ result = <<>>

Init ==
    /\ IsBlock(block)
    /\ input = block
    /\ pc = "start"
    /\ asc = NoResult
    /\ desc = NoResult
    /\ result = <<>>
    /\ WindowIdle
    /\ ZipIdle

\* asc_score, asc_chain = print_chain(block); block.sort() sorts the caller's list
RunAscending ==
    /\ pc = "start"
    /\ Len(block) > 0
    /\ asc' = print_chain(block, TRUE, scope)
    /\ block' = Sort(block)
    /\ pc' = "asc_done"
    /\ UNCHANGED <<input, desc, result>>
    /\ UNCHANGED windowVars /\ UNCHANGED zipVars

\* the same call on an empty block: max() raises and get_collinear is left
RunAscendingRaises ==
    /\ pc = "start"
    /\ Len(block) = 0
    /\ asc' = print_chain(block, TRUE, scope)
    /\ block' = Sort(block)
    /\ pc' = "raised"
    /\ UNCHANGED <<input, desc, result>>
    /\ UNCHANGED windowVars /\ UNCHANGED zipVars

\* desc_score, desc_chain = print_chain(block, ascending=False)
RunDescending ==
    /\ pc = "asc_done"
    /\ desc' = print_chain(block, FALSE, scope)
    /\ pc' = "desc_done"
    /\ UNCHANGED <<block, input, asc, result>>
    /\ UNCHANGED windowVars /\ UNCHANGED zipVars

Select ==
    /\ pc = "desc_done"
    /\ result' = Pick(asc, desc)
    /\ pc' = "done"
    /\ UNCHANGED <<block, input, asc, desc>>
    /\ UNCHANGED windowVars /\ UNCHANGED zipVars

Next == RunAscending \/ RunAscendingRaises \/ RunDescending \/ Select

Spec == Init /\ [][Next]_vars

----------------------------------------------------------------------------
(* The chainer run with each window size 1..MaxScope on one block *)

InitWindow ==
    /\ IsBlock(wblock)
    /\ Len(wblock) > 0
    /\ wasc \in BOOLEAN
    /\ w = 1
    /\ wscore = <<>>
    /\ ChainIdle
    /\ ZipIdle

\* chainscore, chain = print_chain(block, ascending) with scope = w
RunWindow ==
    /\ w >= 1
    /\ w <= MaxScope
    /\ wscore' = Append(wscore, print_chain(wblock, wasc, w).score)
    /\ w' = w + 1
    /\ UNCHANGED <<wblock, wasc>>
    /\ UNCHANGED chainVars /\ UNCHANGED zipVars

NextWindow == RunWindow

SpecWindow == InitWindow /\ [][NextWindow]_vars

----------------------------------------------------------------------------
(* interleave_pairs, consumed by zipbed *)

Ranks == 0..MaxRank

\* the chain of the worked example
ExamplePairs == <<<<0, 0>>, <<3, 4>>>>

Chains == SeqsUpTo(Ranks \X Ranks, MaxPairs) \cup {ExamplePairs}

\* range(start, stop) and range(start, stop, -1)
PyRange(start, stop, step) ==
    IF step > 0
    THEN [x \in 1..(IF stop > start THEN stop - start ELSE 0) |-> start + x - 1]
    ELSE [x \in 1..(IF start > stop THEN start - stop ELSE 0) |-> start - x + 1]

\* faulty variant: the assertion is absent
AssertOkMut(a, c) == TRUE

\* assert a < c
AssertOk(a, c) == a < c

\* xx = range(a + 1, c)
QueryGap(a, c) == PyRange(a + 1, c, 1)

\* faulty variant: the descending range is forgotten
SubjectGapMut(b, d) == PyRange(b + 1, d, 1)

\* yy = range(b + 1, d) if b < d else range(b - 1, d, -1)
SubjectGap(b, d) == IF b < d THEN PyRange(b + 1, d, 1) ELSE PyRange(b - 1, d, 0 - 1)

\* izip_longest(xx, yy); the fill value None is <<>>, a value v is <<v>>
ZipLongest(xx, yy) ==
    [p \in 1..(IF Len(xx) > Len(yy) THEN Len(xx) ELSE Len(yy)) |->
        <<IF p <= Len(xx) THEN <<xx[p]>> ELSE <<>>,
          IF p <= Len(yy) THEN <<yy[p]>> ELSE <<>>>>]

\* Python truth value of an int or None
Truthy(o) == Len(o) = 1 /\ o[1] # 0

\* faulty variant: the subject-side element is yielded first
EmitOneMut(xy) ==
    (IF Truthy(xy[2]) THEN xy[2] ELSE <<>>) \o (IF Truthy(xy[1]) THEN xy[1] ELSE <<>>)

\* if x: yield x; if y: yield y
EmitOne(xy) ==
    (IF Truthy(xy[1]) THEN xy[1] ELSE <<>>) \o (IF Truthy(xy[2]) THEN xy[2] ELSE <<>>)

\* for x, y in izip_longest(xx, yy): ...
RECURSIVE EmitAll(_)
EmitAll(zz) == IF Len(zz) = 0 THEN <<>> ELSE EmitOne(zz[1]) \o EmitAll(Tail(zz))

InitZip ==
    /\ pairs \in Chains
    /\ zpc = "start"
    /\ cur = <<0, 0>>
    /\ k = 0
    /\ out = <<>>
    /\ rows = <<>>
    /\ ChainIdle
    /\ WindowIdle

\* a, b = pairs[0]; yield a; yield b
First ==
    /\ zpc = "start"
    /\ Len(pairs) > 0
    /\ cur' = PyGet(pairs, 0)
    /\ out' = <<PyGet(pairs, 0)[1], PyGet(pairs, 0)[2]>>
    /\ k' = 1
    /\ zpc' = "running"
    /\ UNCHANGED <<pairs, rows>>
    /\ UNCHANGED chainVars /\ UNCHANGED windowVars

\* pairs[0] on an empty list
FirstRaises ==
    /\ zpc = "start"
    /\ Len(pairs) = 0
    /\ zpc' = "IndexError"
    /\ UNCHANGED <<pairs, cur, k, out, rows>>
    /\ UNCHANGED chainVars /\ UNCHANGED windowVars

\* one iteration of the loop over pairs[1:] whose assertion passes
NextPair ==
    /\ zpc = "running"
    /\ k < Len(pairs)
    /\ LET a == cur[1]
           b == cur[2]
           c == PyGet(pairs, k)[1]
           d == PyGet(pairs, k)[2]
       IN  /\ AssertOk(a, c)
           /\ out' = out \o EmitAll(ZipLongest(QueryGap(a, c), SubjectGap(b, d)))
                         \o <<c, d>>
           /\ cur' = <<c, d>>
    /\ k' = k + 1
    /\ UNCHANGED <<pairs, zpc, rows>>
    /\ UNCHANGED chainVars /\ UNCHANGED windowVars

\* one iteration whose assertion fails: AssertionError leaves list() and zipbed
AssertFails ==
    /\ zpc = "running"
    /\ k < Len(pairs)
    /\ ~AssertOk(cur[1], PyGet(pairs, k)[1])
    /\ zpc' = "AssertionError"
    /\ UNCHANGED <<pairs, cur, k, out, rows>>
    /\ UNCHANGED chainVars /\ UNCHANGED windowVars

\* the generator returns: newbed = list(interleave_pairs(pairs)) is complete
Exhausted ==
    /\ zpc = "running"
    /\ k = Len(pairs)
    /\ zpc' = "exhausted"
    /\ UNCHANGED <<pairs, cur, k, out, rows>>
    /\ UNCHANGED chainVars /\ UNCHANGED windowVars

\* for i, b in enumerate(newbed): print >> fw, ...
WriteRows ==
    /\ zpc = "exhausted"
    /\ rows' = out
    /\ zpc' = "written"
    /\ UNCHANGED <<pairs, cur, k, out>>
    /\ UNCHANGED chainVars /\ UNCHANGED windowVars

NextZip == First \/ FirstRaises \/ NextPair \/ AssertFails \/ Exhausted \/ WriteRows

SpecZip == InitZip /\ [][NextZip]_vars

----------------------------------------------------------------------------
(* Properties of the chainer and the orientation selector (Spec) *)

Returned == pc = "done"
BothRun == pc \in {"desc_done", "done"}

QueryIncreasing(ch) == \A x \in 1..(Len(ch) - 1) : ch[x][1] < ch[x + 1][1]
SubjectIncreasing(ch) == \A x \in 1..(Len(ch) - 1) : ch[x][2] < ch[x + 1][2]
SubjectDecreasing(ch) == \A x \in 1..(Len(ch) - 1) : ch[x][2] > ch[x + 1][2]
NoSharedPos(ch) ==
    \A x, y \in 1..Len(ch) : x # y => ch[x][1] # ch[y][1] /\ ch[x][2] # ch[y][2]

StrictlyCollinear(ch) ==
    /\ QueryIncreasing(ch)
    /\ SubjectIncreasing(ch) \/ SubjectDecreasing(ch)
    /\ NoSharedPos(ch)

\* C1: for every non-empty block the chain get_collinear returns is strictly
\* collinear: queryPos strictly increasing, subjectPos strictly monotonic in
\* one direction, no queryPos and no subjectPos shared by two chain anchors.
C1_ChainStrictlyCollinear == Returned => StrictlyCollinear(result)

\* C2: on an empty block print_chain and get_collinear do not fail; they
\* return chain score 0 and an empty chain.
C2_EmptyBlockIsNotAnError ==
    (pc # "start" /\ Len(input) = 0) =>
        /\ asc.status = "ok" /\ asc.score = 0 /\ asc.chain = <<>>
        /\ pc # "raised"

Distinct(s) == \A x, y \in 1..Len(s) : x # y => s[x] # s[y]

\* C3: for every non-empty block the chain of print_chain (either
\* orientation) uses each position of the sorted block at most once, is no
\* longer than the block, and for a one-anchor block is that anchor, once.
C3_EachPositionAtMostOnce ==
    BothRun =>
        \A r \in {asc, desc} :
            /\ Distinct(r.positions)
            /\ Len(r.chain) <= Len(input)
            /\ Len(input) = 1 => r.chain = <<input[1]>>

\* C4 as stated: the chain of the strictly higher score is returned, and the
\* ascending chain when the two scores are equal.
C4_TiesFavorAscending ==
    Returned =>
        /\ asc.score > desc.score => result = asc.chain
        /\ desc.score > asc.score => result = desc.chain
        /\ asc.score = desc.score => result = asc.chain

\* C4 amended: the chain of the strictly higher score is returned, and the
\* descending chain when the two scores are equal.
C4_TiesFavorDescending ==
    Returned =>
        /\ asc.score > desc.score => result = asc.chain
        /\ desc.score > asc.score => result = desc.chain
        /\ asc.score = desc.score => result = desc.chain

C4_Witness ==
    /\ Returned
    /\ asc.score = desc.score
    /\ asc.chain # desc.chain
    /\ result = desc.chain

\* two anchors of the block may both belong to one chain of the orientation
Compatible(x, y, ascending) ==
    \/ x[1] < y[1] /\ (IF ascending THEN x[2] < y[2] ELSE x[2] > y[2])
    \/ y[1] < x[1] /\ (IF ascending THEN y[2] < x[2] ELSE y[2] > x[2])

\* the index sets of the block that form a strictly collinear sub-sequence
SubChains(blk, ascending) ==
    {S \in SUBSET (1..Len(blk)) :
        \A x, y \in S : x # y => Compatible(blk[x], blk[y], ascending)}

Isqrt(n) == CHOOSE r \in 0..n : r * r <= n /\ n < (r + 1) * (r + 1)

RECURSIVE WeightOf(_, _)
WeightOf(blk, S) ==
    IF S = {} THEN 0
    ELSE LET x == CHOOSE y \in S : TRUE
         IN  Isqrt(blk[x][3]) + WeightOf(blk, S \ {x})

IsBestScore(blk, ascending, v) ==
    /\ \E S \in SubChains(blk, ascending) : S # {} /\ WeightOf(blk, S) = v
    /\ \A S \in SubChains(blk, ascending) : WeightOf(blk, S) <= v

\* C5: for a non-empty block no larger than the window and each orientation,
\* the chain score is the maximum of the summed floor(sqrt(weight)) over the
\* strictly collinear sub-sequences of the block; the worked example gives
\* score 12 with the anchors at queryPos 0, 1, 3.
C5_ScoreIsMaximum ==
    (BothRun /\ Len(input) <= scope) =>
        /\ IsBestScore(input, TRUE, asc.score)
        /\ IsBestScore(input, FALSE, desc.score)
        /\ input = ExampleBlock =>
              /\ asc.score = 12
              /\ asc.chain = <<<<0, 5, 16>>, <<1, 6, 16>>, <<3, 7, 16>>>>

C5_Witness ==
    /\ BothRun
    /\ input = ExampleBlock
    /\ asc.score = 12
    /\ Len(asc.chain) = 3

\* C6: every anchor of the chain get_collinear returns, and of the ascending
\* run's chain, is an anchor of the input block with its original values;
\* the caller's list holds no negated anchor either.
C6_OriginalCoordinates ==
    /\ Returned => Range(result) \subseteq Range(input)
    /\ BothRun => Range(asc.chain) \subseteq Range(input)
    /\ BothRun => Range(desc.chain) \subseteq Range(input)
    /\ Range(block) = Range(input)

C6_Witness ==
    /\ Returned
    /\ desc.score > asc.score
    /\ result = desc.chain
    /\ Len(result) >= 2
    /\ \E x \in 1..Len(result) : result[x][2] > 0

----------------------------------------------------------------------------
(* Property of the window (SpecWindow) *)

\* C7: for a fixed non-empty block and orientation the chain score is
\* non-decreasing in the window size.
C7_ScoreMonotonicInWindow ==
    \A w1, w2 \in 1..Len(wscore) : w1 <= w2 => wscore[w1] <= wscore[w2]

C7_Witness ==
    /\ Len(wscore) >= 3
    /\ Len(wblock) >= 3
    /\ wscore[2] < wscore[3]

----------------------------------------------------------------------------
(* Properties of the interleaver (SpecZip) *)

\* number of positions strictly between u and v
Between(u, v) == IF u < v THEN v - u - 1 ELSE IF v < u THEN u - v - 1 ELSE 0

\* the positions strictly between u and v
BetweenSet(u, v) == IF u < v THEN (u + 1)..(v - 1) ELSE (v + 1)..(u - 1)

GapLen(m) == Between(pairs[m][1], pairs[m + 1][1]) + Between(pairs[m][2], pairs[m + 1][2])

RECURSIVE TotalLen(_)
\* indices yielded for the first m pairs, by the claimed count
TotalLen(m) == IF m <= 1 THEN 2 * m ELSE TotalLen(m - 1) + GapLen(m - 1) + 2

Count(s, v) == Cardinality({x \in 1..Len(s) : s[x] = v})

\* the part of out between the indices of pair m and those of pair m + 1
Segment(m) == SubSeq(out, TotalLen(m) + 1, TotalLen(m) + GapLen(m))

Consumed == zpc \in {"exhausted", "written"}

\* C8: for a non-empty chain of non-negative ranks with strictly increasing
\* queryIdx, the number of yielded indices is 2 x pairs plus the number of
\* positions strictly inside each query gap and each subject gap; each gap
\* position is yielded exactly once (twice when it lies in both gaps).
C8_OutputLength ==
    (Consumed /\ Len(pairs) > 0) =>
        /\ Len(out) = TotalLen(Len(pairs))
        /\ \A m \in 1..(Len(pairs) - 1) :
              \A v \in Range(Segment(m)) \cup BetweenSet(pairs[m][1], pairs[m + 1][1])
                                         \cup BetweenSet(pairs[m][2], pairs[m + 1][2]) :
                  Count(Segment(m), v) =
                      (IF v \in BetweenSet(pairs[m][1], pairs[m + 1][1]) THEN 1 ELSE 0)
                    + (IF v \in BetweenSet(pairs[m][2], pairs[m + 1][2]) THEN 1 ELSE 0)
        /\ pairs = ExamplePairs => out = <<0, 0, 1, 1, 2, 2, 3, 3, 4>>

C8_Witness ==
    /\ Consumed
    /\ Len(pairs) = 3
    /\ pairs[2][1] > pairs[1][1] + 1
    /\ pairs[3][2] < pairs[2][2] - 1
    /\ Len(out) > 2 * Len(pairs)

HasBadPair == \E m \in 1..(Len(pairs) - 1) : pairs[m][1] >= pairs[m + 1][1]

\* the first pair that is followed by a pair whose queryIdx is not larger
FirstBad ==
    CHOOSE m \in 1..(Len(pairs) - 1) :
        /\ pairs[m][1] >= pairs[m + 1][1]
        /\ \A n \in 1..(m - 1) : pairs[n][1] < pairs[n + 1][1]

\* C9: when a pair (c, d) follows (a, b) with a >= c, the generator fails at
\* that pair: nothing of that pair, of its gap or of a later pair is yielded,
\* and zipbed writes no row for the chain.
C9_FatalOnNonIncreasing ==
    HasBadPair =>
        /\ rows = <<>>
        /\ ~Consumed
        /\ k <= FirstBad
        /\ Len(out) <= TotalLen(FirstBad)
        /\ (zpc = "running" /\ k = FirstBad) => ENABLED AssertFails /\ ~ENABLED NextPair
        /\ zpc = "AssertionError" => k = FirstBad /\ Len(out) = TotalLen(FirstBad)

C9_Witness ==
    /\ zpc = "AssertionError"
    /\ k = 2
    /\ Len(out) > 4
    /\ rows = <<>>

\* the gap of the subject side walked from b towards d, by position p >= 1;
\* closed = TRUE makes the descending range end at d itself
SubjectLen(b, d, closed) ==
    IF b < d THEN d - b - 1
    ELSE IF b > d THEN (IF closed THEN b - d ELSE b - d - 1)
    ELSE 0
SubjectAt(b, d, p) == IF b < d THEN b + p ELSE b - p

RECURSIVE Lockstep(_, _, _, _, _, _)
\* positions p, p + 1, ... of the two gaps, the query side first
Lockstep(a, b, c, d, p, closed) ==
    IF p > c - a - 1 /\ p > SubjectLen(b, d, closed) THEN <<>>
    ELSE (IF p <= c - a - 1 THEN <<a + p>> ELSE <<>>)
         \o (IF p <= SubjectLen(b, d, closed) THEN <<SubjectAt(b, d, p)>> ELSE <<>>)
         \o Lockstep(a, b, c, d, p + 1, closed)

RECURSIVE Described(_, _)
\* what the description yields for the first m pairs
Described(m, closed) ==
    IF m = 0 THEN <<>>
    ELSE IF m = 1 THEN <<pairs[1][1], pairs[1][2]>>
    ELSE Described(m - 1, closed)
         \o Lockstep(pairs[m - 1][1], pairs[m - 1][2], pairs[m][1], pairs[m][2], 1, closed)
         \o <<pairs[m][1], pairs[m][2]>>

\* C10 as stated: the first pair first; then for each following pair the
\* query gap a+1 .. c-1 and the subject gap (b+1 .. d-1 ascending, or
\* d .. b-1 reversed) in lockstep, query element first, then c, then d.
C10_OrderAsStated == out = Described(k, TRUE)

\* C10 amended: as stated, with the descending subject gap being
\* b-1 .. d+1 (d itself is not a gap element).
C10_OrderAmended == out = Described(k, FALSE)

C10_Witness ==
    /\ Consumed
    /\ Len(pairs) = 3
    /\ pairs[2][1] > pairs[1][1] + 1
    /\ pairs[2][2] > pairs[1][2] + 2
    /\ pairs[3][2] < pairs[2][2] - 1
    /\ out = Described(3, FALSE)

====
